---- MODULE Spec2Model ----
(***************************************************************************)
(* State-machine model of the file-manager controller `Root` of            *)
(* src/main.py: the directory listing (list_dir, reload), the selection    *)
(* and clipboard, and the file operations (new folder, rename, delete,     *)
(* copy/paste, move, zip, unzip, properties).                              *)
(*                                                                         *)
(* Strings are sequences of one-character strings, a path is the sequence  *)
(* of its components below "/", and the file system is a function from     *)
(* the existing paths to their nodes.                                      *)
(***************************************************************************)
EXTENDS Integers, Sequences, FiniteSets, TLC

\* ------------------------------------------------------------------ bounds
\* Largest number of reloads scheduled by do_search and not yet run.
MaxPending == 1

\* ----------------------------------------------------------------- strings
Upper == <<"A","B","C","D","E","F","G","H","I","J","K","L","M",
           "N","O","P","Q","R","S","T","U","V","W","X","Y","Z">>
LowerCase == <<"a","b","c","d","e","f","g","h","i","j","k","l","m",
               "n","o","p","q","r","s","t","u","v","w","x","y","z">>
Digit == <<"0","1","2","3","4","5","6","7","8","9">>

IndexIn(seq, c) == CHOOSE i \in 1..Len(seq) : seq[i] = c
IsIn(seq, c) == \E i \in 1..Len(seq) : seq[i] = c

\* The characters file names and typed text are made of.
Alphabet ==
  {Upper[i] : i \in 1..26} \cup {LowerCase[i] : i \in 1..26}
    \cup {Digit[i] : i \in 1..10} \cup {" ", "(", ")", ".", "/"}

\* ord(c)
OrdOf ==
  [c \in Alphabet |->
     IF IsIn(Upper, c) THEN 64 + IndexIn(Upper, c)
     ELSE IF IsIn(LowerCase, c) THEN 96 + IndexIn(LowerCase, c)
     ELSE IF IsIn(Digit, c) THEN 47 + IndexIn(Digit, c)
     ELSE CASE c = " " -> 32
            [] c = "(" -> 40
            [] c = ")" -> 41
            [] c = "." -> 46
            [] c = "/" -> 47]
Ord(c) == OrdOf[c]

\* str.lower()
LowerOf ==
  [c \in Alphabet |-> IF IsIn(Upper, c) THEN LowerCase[IndexIn(Upper, c)] ELSE c]
LowerChar(c) == LowerOf[c]
Lower(s) == [i \in 1..Len(s) |-> LowerChar(s[i])]

\* str.strip(): leading and trailing blanks removed.
Strip(s) ==
  LET idx == {i \in 1..Len(s) : s[i] /= " "}
  IN IF idx = {} THEN <<>>
     ELSE LET lo == CHOOSE i \in idx : \A j \in idx : i <= j
              hi == CHOOSE i \in idx : \A j \in idx : j <= i
          IN SubSeq(s, lo, hi)

\* a < b for Python strings: lexicographic by code point.
StrLess(a, b) ==
  \E k \in 1..Len(b) :
     /\ \A j \in 1..(k-1) : j <= Len(a) /\ a[j] = b[j]
     /\ \/ k = Len(a) + 1
        \/ k <= Len(a) /\ Ord(a[k]) < Ord(b[k])

\* q in s
Contains(s, q) ==
  \E i \in 0..(Len(s) - Len(q)) : \A j \in 1..Len(q) : s[i + j] = q[j]

StartsWith(s, p) == Len(p) <= Len(s) /\ SubSeq(s, 1, Len(p)) = p
EndsWith(s, p) == Len(p) <= Len(s) /\ SubSeq(s, Len(s) - Len(p) + 1, Len(s)) = p

\* str(i) for a natural number.
RECURSIVE Str(_)
Str(i) == IF i < 10 THEN <<Digit[i + 1]>> ELSE Str(i \div 10) \o <<Digit[(i % 10) + 1]>>

\* os.path.splitext of a file name: the extension starts at the last dot,
\* unless only dots precede it.
SplitExt(n) ==
  LET dots == {i \in 1..Len(n) : n[i] = "."}
  IN IF dots = {} THEN [base |-> n, ext |-> <<>>]
     ELSE LET d == CHOOSE i \in dots : \A j \in dots : j <= i
          IN IF \E i \in 1..(d-1) : n[i] /= "."
             THEN [base |-> SubSeq(n, 1, d-1), ext |-> SubSeq(n, d, Len(n))]
             ELSE [base |-> n, ext |-> <<>>]

\* ------------------------------------------------------------------- paths
\* str.split("/") without the empty pieces.
RECURSIVE Split(_)
Split(s) ==
  IF s = <<>> THEN <<>>
  ELSE IF s[1] = "/" THEN Split(Tail(s))
  ELSE LET cut == {i \in 1..Len(s) : s[i] = "/"}
       IN IF cut = {} THEN <<s>>
          ELSE LET c == CHOOSE i \in cut : \A j \in cut : i <= j
               IN <<SubSeq(s, 1, c-1)>> \o Split(SubSeq(s, c+1, Len(s)))

\* os.path.join(base, name): an absolute name replaces the base.
Join(base, name) ==
  IF name /= <<>> /\ name[1] = "/" THEN Split(name) ELSE base \o Split(name)

\* os.path.dirname / os.path.basename of a path
Dirname(p) == IF p = <<>> THEN <<>> ELSE SubSeq(p, 1, Len(p) - 1)
Basename(p) == IF p = <<>> THEN <<>> ELSE p[Len(p)]

IsPrefix(p, q) == Len(p) <= Len(q) /\ SubSeq(q, 1, Len(p)) = p
IsChildOf(p, d) == Len(p) = Len(d) + 1 /\ IsPrefix(d, p)

\* ------------------------------------------------------------- file system
\* A node of the file system. mode is what the operating system allows:
\*   "ok"      every call on the node succeeds;
\*   "denied"  every call on the node fails (stat, open, unlink, rename);
\*   "noread"  stat succeeds, opening a file or scanning a directory fails;
\*   "locked"  the node can be read but neither unlinked nor renamed.
\* data identifies a file's bytes; zip says whether they are a zip container
\* and arc holds the container's members.
DirNode(mt, mode) ==
  [dir |-> TRUE, size |-> 0, mtime |-> mt, mode |-> mode,
   data |-> 0, zip |-> FALSE, arc |-> {}]
FileNode(sz, mt, mode, d) ==
  [dir |-> FALSE, size |-> sz, mtime |-> mt, mode |-> mode,
   data |-> d, zip |-> FALSE, arc |-> {}]
ZipNode(sz, mt, members) ==
  [dir |-> FALSE, size |-> sz, mtime |-> mt, mode |-> "ok",
   data |-> 0, zip |-> TRUE, arc |-> members]

\* Modification time given to whatever is created while the program runs.
Now == 3

Has(f, p) == p \in DOMAIN f
\* os.stat(p) succeeds
CanStat(f, p) == Has(f, p) /\ f[p].mode /= "denied"
\* os.path.exists(p), os.path.isdir(p): False when stat fails
PathExists(f, p) == CanStat(f, p)
IsDir(f, p) == CanStat(f, p) /\ f[p].dir
\* open(p, 'rb') succeeds
CanOpen(f, p) == Has(f, p) /\ ~f[p].dir /\ f[p].mode \in {"ok", "locked"}
\* os.scandir(p) succeeds
CanScan(f, p) == Has(f, p) /\ f[p].dir /\ f[p].mode \in {"ok", "locked"}

Children(f, d) == {p \in DOMAIN f : IsChildOf(p, d)}
Under(f, d) == {p \in DOMAIN f : IsPrefix(d, p)}

Remove(f, S) == [p \in DOMAIN f \ S |-> f[p]]
Put(f, p, n) == [q \in DOMAIN f \cup {p} |-> IF q = p THEN n ELSE f[q]]

Done(f) == [fs |-> f, ok |-> TRUE]
Fail(f) == [fs |-> f, ok |-> FALSE]

\* os.remove(p)
OsRemove(f, p) ==
  IF Has(f, p) /\ ~f[p].dir /\ f[p].mode \in {"ok", "noread"}
  THEN Done(Remove(f, {p})) ELSE Fail(f)

\* shutil.rmtree(p): children are removed in the order the scan yields them
\* and the first error is raised, whatever was removed before it stays
\* removed. The result is the set of outcomes over all scan orders.
RECURSIVE RmTree(_, _), RmEntries(_, _)
RmTree(f, p) ==
  IF ~CanScan(f, p) THEN {Fail(f)}
  ELSE IF \A q \in Under(f, p) : f[q].mode \in {"ok"} \/ (~f[q].dir /\ f[q].mode = "noread")
  THEN {Done(Remove(f, Under(f, p)))}
  ELSE {IF r.ok
        THEN (IF f[p].mode = "locked" THEN Fail(r.fs) ELSE Done(Remove(r.fs, {p})))
        ELSE r : r \in RmEntries(f, Children(f, p))}
RmEntries(f, todo) ==
  IF todo = {} THEN {Done(f)}
  ELSE UNION { UNION { IF r.ok THEN RmEntries(r.fs, todo \ {c}) ELSE {r}
                       : r \in (IF f[c].dir THEN RmTree(f, c) ELSE {OsRemove(f, c)}) }
               : c \in todo }

\* shutil.copy2(src, dst) for a dst that is not a directory: the source is
\* opened first, then the target is created or truncated; the copy carries
\* the source's bytes and times.
Copy2(f, src, dst) ==
  IF /\ CanOpen(f, src)
     /\ src /= dst
     /\ IsDir(f, Dirname(dst))
     /\ (Has(f, dst) => ~f[dst].dir /\ f[dst].mode \in {"ok", "locked"})
  THEN Done(Put(f, dst, [f[src] EXCEPT !.mode = "ok"]))
  ELSE Fail(f)

\* shutil.copytree(src, dst): src is scanned, then dst is created (it must
\* not exist), then every entry is copied; errors are collected and raised
\* at the end, so everything that can be copied is.
RECURSIVE CopyTree(_, _, _), CopyEntries(_, _, _, _)
CopyTree(f, src, dst) ==
  IF ~CanScan(f, src) \/ Has(f, dst) \/ ~IsDir(f, Dirname(dst)) THEN Fail(f)
  ELSE CopyEntries(Put(f, dst, [f[src] EXCEPT !.mode = "ok"]),
                   Children(f, src), dst, TRUE)
CopyEntries(f, todo, dst, good) ==
  IF todo = {} THEN [fs |-> f, ok |-> good]
  ELSE LET c == CHOOSE c \in todo : TRUE
           to == Append(dst, Basename(c))
           r == IF f[c].dir THEN CopyTree(f, c, to) ELSE Copy2(f, c, to)
       IN CopyEntries(r.fs, todo \ {c}, dst, good /\ r.ok)

\* os.rename(src, dst) with POSIX semantics: an existing file, or an empty
\* directory, at dst is replaced.
OsRename(f, src, dst) ==
  IF ~Has(f, src) \/ f[src].mode \in {"denied", "locked"} \/ ~IsDir(f, Dirname(dst))
  THEN Fail(f)
  ELSE IF src = dst THEN Done(f)
  ELSE IF IsPrefix(src, dst) \/ IsPrefix(dst, src) THEN Fail(f)
  ELSE IF Has(f, dst) /\
          ( \/ f[dst].dir /= f[src].dir
            \/ f[dst].mode \in {"denied", "locked"}
            \/ Children(f, dst) /= {} )
  THEN Fail(f)
  ELSE LET moved == Under(f, src)
           rest == Remove(f, moved \cup {dst})
           new(p) == dst \o SubSeq(p, Len(src) + 1, Len(p))
       IN Done([q \in DOMAIN rest \cup {new(p) : p \in moved} |->
                  IF q \in DOMAIN rest THEN rest[q]
                  ELSE f[CHOOSE p \in moved : new(p) = q]])

\* shutil.move(src, dst): into dst when dst is a directory, by os.rename,
\* and by copy-then-delete when the rename fails.
ShutilMove(f, src, dst) ==
  LET into == IsDir(f, dst) /\ src /= dst
      real == IF into THEN Append(dst, Basename(src)) ELSE dst
      r == OsRename(f, src, real)
  IN IF into /\ PathExists(f, real) THEN {Fail(f)}
     ELSE IF r.ok THEN {r}
     ELSE IF IsDir(f, src)
     THEN IF IsPrefix(src, dst) THEN {Fail(f)}
          ELSE LET c == CopyTree(f, src, real)
               IN IF c.ok THEN RmTree(c.fs, src) ELSE {Fail(c.fs)}
     ELSE LET c == Copy2(f, src, real)
          IN IF c.ok THEN {OsRemove(c.fs, src)} ELSE {Fail(c.fs)}

\* ----------------------------------------------------------------- listing
\* list_dir: one FMItem per child that can be stat-ed, hidden names left out
\* unless include_hidden; the scan order is arbitrary, so the result is a set.
FMItem(f, p) ==
  [path |-> p, is_dir |-> f[p].dir,
   size |-> IF f[p].dir THEN 0 ELSE f[p].size, mtime |-> f[p].mtime]
ItemName(i) == IF Basename(i.path) /= <<>> THEN Basename(i.path) ELSE i.path
list_dir(f, path, include_hidden) ==
  {FMItem(f, p) : p \in {c \in Children(f, path) :
      /\ include_hidden \/ ~StartsWith(Basename(c), <<".">>)
      /\ CanStat(f, c)}}

\* A filter that lets every item through.
MatchesAny(i, query) == TRUE

\* reload's search filter
Matches(i, query) ==
  LET q == Strip(Lower(query)) IN q = <<>> \/ Contains(Lower(ItemName(i)), q)

\* reload's sort keys: (not is_dir, name.lower() | size | mtime)
SecLess(a, b, key) ==
  IF key = "name" THEN StrLess(Lower(ItemName(a)), Lower(ItemName(b)))
  ELSE IF key = "size" THEN a.size < b.size
  ELSE a.mtime < b.mtime
KeyLess(a, b, key) ==
  \/ a.is_dir /\ ~b.is_dir
  \/ a.is_dir = b.is_dir /\ SecLess(a, b, key)
\* list.sort(key=..., reverse=desc): a precedes b
Precedes(a, b, key, desc) == IF desc THEN KeyLess(b, a, key) ELSE KeyLess(a, b, key)

\* The orders list.sort can leave the items in: the sort is stable and the
\* scan order arbitrary, so items with equal keys come in any order.
RECURSIVE Sorted(_, _, _)
Sorted(S, key, desc) ==
  IF S = {} THEN {<<>>}
  ELSE UNION { {<<x>> \o t : t \in Sorted(S \ {x}, key, desc)}
               : x \in {x \in S : \A y \in S : ~Precedes(y, x, key, desc)} }

Row(i, sel) ==
  [name |-> ItemName(i), is_dir |-> i.is_dir, selected |-> i.path \in sel, path |-> i.path]

\* The values reload can give rv.data
Views(f, path, hidden, query, key, desc, sel) ==
  LET items == {i \in list_dir(f, path, hidden) : Matches(i, query)}
  IN {[k \in 1..Len(s) |-> Row(s[k], sel)] : s \in Sorted(items, key, desc)}

Toast(kind, item) == [kind |-> kind, item |-> item]

\* ------------------------------------------------------------------- state
VARIABLES
  fs,            \* the file system: existing path -> node
  current_path,  \* Root.current_path
  show_hidden,   \* Root.show_hidden
  search_query,  \* Root.search_query
  sort_key,      \* Root.sort_key
  sort_desc,     \* Root.sort_desc
  selection,     \* Root.selection: set of paths
  clipboard,     \* Root.clipboard: list of paths
  data,          \* Root.rv.data: the rows on screen
  pending,       \* reloads scheduled on the Clock by do_search, not yet run
  pc,            \* "idle", or the batch loop that is running
  todo,          \* the items the running batch loop has still to visit
  op,            \* the handler that ran last
  toasts,        \* the messages _toast showed during that handler
  popup,         \* the Properties popup that handler opened, if any
  fs0,           \* the file system when the last batch loop started
  batch,         \* the list the last batch loop iterates over
  attempts,      \* what the last batch loop has tried: source, target, outcome
  budget         \* how many more handlers that change the file system are followed

vars == <<fs, current_path, show_hidden, search_query, sort_key, sort_desc,
          selection, clipboard, data, pending, pc, todo, op, toasts, popup,
          fs0, batch, attempts, budget>>

settings == <<show_hidden, search_query, sort_key, sort_desc>>

EmptyFs == [p \in {} |-> DirNode(0, "ok")]
NoPopup == [shown |-> FALSE, items |-> 0, files |-> 0, size |-> 0]

\* A handler starts when no batch loop is running; the program is followed
\* until the budget of edits is used up.
Ready == pc = "idle" /\ budget > 0

\* Every handler but a batch loop starts with no record of an earlier batch.
NoBatch == fs0' = EmptyFs /\ batch' = <<>> /\ attempts' = <<>>

\* All orders of a finite set (the iteration order of a Python set).
RECURSIVE Perms(_)
Perms(S) ==
  IF S = {} THEN {<<>>}
  ELSE UNION { {<<x>> \o t : t \in Perms(S \ {x})} : x \in S }

\* reload(), run at the end of a handler that has shown the toasts t: on a
\* listing error the rows stay as they were and the error is toasted.
Reload(t) ==
  IF CanScan(fs', current_path')
  THEN /\ data' \in Views(fs', current_path', show_hidden', search_query',
                          sort_key', sort_desc', selection')
       /\ toasts' = t
  ELSE /\ data' = data
       /\ toasts' = Append(t, Toast("error", <<>>))

\* ---------------------------------------------------------------- navigation
\* navigate_to without selection.clear()
navigate_to_keep(path) ==
  /\ popup' = NoPopup
  /\ NoBatch
  /\ UNCHANGED <<fs, settings, clipboard, pending, pc, todo, budget>>
  /\ IF ~PathExists(fs, path)
     THEN /\ toasts' = <<Toast("Path not found", Basename(path))>>
          /\ UNCHANGED <<current_path, selection, data>>
     ELSE /\ current_path' = path
          /\ selection' = selection
          /\ Reload(<<>>)

navigate_to(path) ==
  /\ popup' = NoPopup
  /\ NoBatch
  /\ UNCHANGED <<fs, settings, clipboard, pending, pc, todo, budget>>
  /\ IF ~PathExists(fs, path)
     THEN /\ toasts' = <<Toast("Path not found", Basename(path))>>
          /\ UNCHANGED <<current_path, selection, data>>
     ELSE /\ current_path' = path
          /\ selection' = {}
          /\ Reload(<<>>)

go_up ==
  /\ Ready
  /\ op' = "go_up"
  /\ navigate_to(Dirname(current_path))

\* A double tap on row `index`: a directory is entered, a file is handed to
\* the platform's viewer, which may show a message.
on_item_open(index) ==
  /\ Ready
  /\ index \in 1..Len(data)
  /\ IF data[index].is_dir
     THEN op' = "on_item_open" /\ navigate_to(data[index].path)
     ELSE /\ op' = "open_with_android"
          /\ toasts' \in {<<>>, <<Toast("open", data[index].name)>>}
          /\ popup' = NoPopup
          /\ NoBatch
          /\ UNCHANGED <<fs, settings, current_path, selection, data,
                         clipboard, pending, pc, todo, budget>>

\* ----------------------------------------------------------------- selection
\* A toggle that only ever adds the path.
ToggledAdding(sel, path) == sel \cup {path}

\* The selection after toggle_select has met `path`.
Toggled(sel, path) ==
  IF path \in sel THEN sel \ {path} ELSE sel \cup {path}

toggle_select(index) ==
  /\ Ready
  /\ index \in 1..Len(data)
  /\ op' = "toggle_select"
  /\ selection' = Toggled(selection, data[index].path)
  /\ popup' = NoPopup
  /\ NoBatch
  /\ UNCHANGED <<fs, settings, current_path, clipboard, pending, pc, todo, budget>>
  /\ Reload(<<>>)

select_all ==
  /\ Ready
  /\ op' = "select_all"
  /\ selection' = {data[i].path : i \in 1..Len(data)}
  /\ popup' = NoPopup
  /\ NoBatch
  /\ UNCHANGED <<fs, settings, current_path, clipboard, pending, pc, todo, budget>>
  /\ Reload(<<>>)

\* A clear_sel that empties the clipboard as well.
clear_sel_all ==
  /\ Ready
  /\ op' = "clear_sel"
  /\ selection' = {}
  /\ clipboard' = <<>>
  /\ popup' = NoPopup
  /\ NoBatch
  /\ UNCHANGED <<fs, settings, current_path, pending, pc, todo, budget>>
  /\ Reload(<<>>)

clear_sel ==
  /\ Ready
  /\ op' = "clear_sel"
  /\ selection' = {}
  /\ popup' = NoPopup
  /\ NoBatch
  /\ UNCHANGED <<fs, settings, current_path, clipboard, pending, pc, todo, budget>>
  /\ Reload(<<>>)

\* ------------------------------------------------------------------ UI hooks
toggle_hidden ==
  /\ Ready
  /\ op' = "toggle_hidden"
  /\ show_hidden' = ~show_hidden
  /\ popup' = NoPopup
  /\ NoBatch
  /\ UNCHANGED <<fs, search_query, sort_key, sort_desc, current_path,
                 selection, clipboard, pending, pc, todo, budget>>
  /\ Reload(<<>>)

set_sort(key) ==
  /\ Ready
  /\ op' = "set_sort"
  /\ IF sort_key = key
     THEN sort_desc' = ~sort_desc /\ sort_key' = sort_key
     ELSE sort_key' = key /\ sort_desc' = FALSE
  /\ popup' = NoPopup
  /\ NoBatch
  /\ UNCHANGED <<fs, show_hidden, search_query, current_path, selection,
                 clipboard, pending, pc, todo, budget>>
  /\ Reload(<<>>)

\* do_search stores the text and schedules a reload on the Clock.
do_search(text) ==
  /\ Ready
  /\ pending < MaxPending
  /\ op' = "do_search"
  /\ search_query' = text
  /\ pending' = pending + 1
  /\ toasts' = <<>>
  /\ popup' = NoPopup
  /\ NoBatch
  /\ UNCHANGED <<fs, show_hidden, sort_key, sort_desc, current_path,
                 selection, clipboard, data, pc, todo, budget>>

\* The Clock runs a reload that do_search scheduled.
clock_reload ==
  /\ Ready
  /\ pending > 0
  /\ op' = "reload"
  /\ pending' = pending - 1
  /\ popup' = NoPopup
  /\ NoBatch
  /\ UNCHANGED <<fs, settings, current_path, selection, clipboard, pc, todo, budget>>
  /\ Reload(<<>>)

\* ---------------------------------------------------------- library calls 2
\* os.makedirs(p, exist_ok): missing ancestors are created first, then p.
RECURSIVE MakeDirs(_, _, _)
MakeDirs(f, p, exist_ok) ==
  LET head == Dirname(p)
      h == IF PathExists(f, head) THEN Done(f) ELSE MakeDirs(f, head, exist_ok)
  IN IF ~h.ok THEN h
     ELSE IF ~Has(h.fs, p) /\ IsDir(h.fs, head)
     THEN Done(Put(h.fs, p, DirNode(Now, "ok")))
     ELSE IF exist_ok /\ IsDir(h.fs, p) THEN Done(h.fs)
     ELSE Fail(h.fs)

\* What a file holds, apart from its name, times and permissions.
Bytes(n) == [data |-> n.data, size |-> n.size, zip |-> n.zip, arc |-> n.arc]

\* The file paths os.walk(d) hands to the loop, in order: the files of a
\* directory, then its sub-directories' (a directory that cannot be scanned
\* is skipped silently); the order within a directory is the scan's.
RECURSIVE WalkSeqs(_, _), WalkDirs(_, _)
WalkSeqs(f, d) ==
  IF ~CanScan(f, d) THEN {<<>>}
  ELSE LET files == {c \in Children(f, d) : ~f[c].dir}
       IN {a \o b : a \in Perms(files), b \in WalkDirs(f, Children(f, d) \ files)}
WalkDirs(f, D) ==
  IF D = {} THEN {<<>>}
  ELSE UNION { {a \o b : a \in WalkSeqs(f, c), b \in WalkDirs(f, D \ {c})} : c \in D }

\* The files os.walk(d) reports, as a set.
WalkFiles(f, d) ==
  {q \in Under(f, d) : ~f[q].dir /\
     \A k \in Len(d)..(Len(q) - 1) : CanScan(f, SubSeq(q, 1, k))}

RECURSIVE SumSizes(_, _)
SumSizes(f, S) ==
  IF S = {} THEN 0
  ELSE LET q == CHOOSE q \in S : TRUE IN f[q].size + SumSizes(f, S \ {q})

\* ------------------------------------------------------------------- actions
\* A handler that goes on to change the file system uses up one edit.
Edit == budget' = budget - 1
NoEdit == budget' = budget

\* What every handler that is no batch loop leaves alone.
Plain == popup' = NoPopup /\ NoBatch /\ UNCHANGED <<settings, pending, pc, todo>>

\* new_folder, with the text typed into the popup
new_folder(text) ==
  /\ Ready
  /\ op' = "new_folder"
  /\ Plain
  /\ UNCHANGED <<current_path, selection, clipboard>>
  /\ LET name == Strip(text)
         dest == Join(current_path, name)
         r == MakeDirs(fs, dest, FALSE)
     IN IF name = <<>>
        THEN toasts' = <<>> /\ NoEdit /\ UNCHANGED <<fs, data>>
        ELSE /\ fs' = r.fs
             /\ Edit
             /\ IF r.ok THEN Reload(<<>>)
                ELSE toasts' = <<Toast("error", name)>> /\ data' = data

\* rename_item, with the text typed into the popup
rename_item(text) ==
  /\ Ready
  /\ op' = "rename_item"
  /\ Plain
  /\ UNCHANGED <<current_path, clipboard>>
  /\ IF Cardinality(selection) /= 1
     THEN /\ toasts' = <<Toast("Select exactly one item to rename.", <<>>)>>
          /\ UNCHANGED <<fs, selection, data, budget>>
     ELSE LET src == CHOOSE x \in selection : TRUE
              new_name == Strip(text)
              dest == Join(Dirname(src), new_name)
              r == OsRename(fs, src, dest)
          IN IF new_name = <<>>
             THEN toasts' = <<>> /\ UNCHANGED <<fs, selection, data, budget>>
             ELSE IF r.ok
             THEN fs' = r.fs /\ selection' = {dest} /\ Edit /\ Reload(<<>>)
             ELSE /\ toasts' = <<Toast("error", new_name)>>
                  /\ Edit
                  /\ UNCHANGED <<fs, selection, data>>

\* A loop that stops at the first item that fails.
NextItemsUntilFailure(items, ok) == IF ok THEN Tail(items) ELSE <<>>

\* The items a batch loop goes on to after an item: the try/except inside the
\* loop body makes it the rest of the list whether or not the item failed.
NextItems(items, ok) == Tail(items)

\* delete_items, confirmed: the loop over list(self.selection) starts
delete_items ==
  /\ Ready
  /\ op' = "delete_items"
  /\ popup' = NoPopup
  /\ UNCHANGED <<fs, settings, current_path, selection, clipboard, data, pending>>
  /\ IF selection = {}
     THEN /\ toasts' = <<Toast("Nothing selected", <<>>)>>
          /\ NoBatch
          /\ UNCHANGED <<pc, todo, budget>>
     ELSE \E order \in Perms(selection) :
            /\ pc' = "delete" /\ todo' = order /\ batch' = order
            /\ fs0' = fs /\ attempts' = <<>> /\ toasts' = <<>> /\ Edit

\* One pass of delete_items' loop; after the last one the selection is
\* cleared and the view reloaded.
delete_step ==
  /\ pc = "delete"
  /\ UNCHANGED <<settings, current_path, clipboard, pending, op, popup, fs0,
                 batch, budget>>
  /\ LET p == Head(todo)
     IN \E r \in (IF IsDir(fs, p) THEN RmTree(fs, p) ELSE {OsRemove(fs, p)}) :
          LET t == IF r.ok THEN toasts ELSE Append(toasts, Toast("Failed", Basename(p)))
          IN /\ fs' = r.fs
             /\ attempts' = Append(attempts, [src |-> p, dest |-> p,
                                              fresh |-> FALSE, ok |-> r.ok])
             /\ todo' = NextItems(todo, r.ok)
             /\ IF NextItems(todo, r.ok) = <<>>
                THEN selection' = {} /\ pc' = "idle" /\ Reload(t)
                ELSE toasts' = t /\ UNCHANGED <<selection, pc, data>>

\* A copy_to_clipboard that adds the selection to what is staged.
copy_to_clipboard_merging ==
  /\ Ready
  /\ op' = "copy_to_clipboard"
  /\ Plain
  /\ UNCHANGED <<fs, current_path, selection, data, budget>>
  /\ IF selection = {}
     THEN toasts' = <<Toast("Select files to copy", <<>>)>> /\ clipboard' = clipboard
     ELSE /\ \E order \in Perms(selection) : clipboard' = clipboard \o order
          /\ toasts' = <<Toast("Copied", Str(Cardinality(selection)))>>

copy_to_clipboard ==
  /\ Ready
  /\ op' = "copy_to_clipboard"
  /\ Plain
  /\ UNCHANGED <<fs, current_path, selection, data, budget>>
  /\ IF selection = {}
     THEN toasts' = <<Toast("Select files to copy", <<>>)>> /\ clipboard' = clipboard
     ELSE /\ clipboard' \in Perms(selection)
          /\ toasts' = <<Toast("Copied", Str(Cardinality(selection)))>>

\* A move_to_here that empties the clipboard before its loop.
move_to_here_clearing ==
  /\ Ready
  /\ op' = "move_to_here"
  /\ popup' = NoPopup
  /\ UNCHANGED <<fs, settings, current_path, selection, data, pending>>
  /\ IF clipboard = <<>>
     THEN /\ toasts' = <<Toast("Clipboard empty", <<>>)>>
          /\ NoBatch
          /\ UNCHANGED <<clipboard, pc, todo, budget>>
     ELSE /\ pc' = "move" /\ todo' = clipboard /\ batch' = clipboard
          /\ clipboard' = <<>>
          /\ fs0' = fs /\ attempts' = <<>> /\ toasts' = <<>> /\ Edit

\* move_to_here: the loop over list(self.clipboard) starts
move_to_here ==
  /\ Ready
  /\ op' = "move_to_here"
  /\ popup' = NoPopup
  /\ UNCHANGED <<fs, settings, current_path, selection, clipboard, data, pending>>
  /\ IF clipboard = <<>>
     THEN /\ toasts' = <<Toast("Clipboard empty", <<>>)>>
          /\ NoBatch
          /\ UNCHANGED <<pc, todo, budget>>
     ELSE /\ pc' = "move" /\ todo' = clipboard /\ batch' = clipboard
          /\ fs0' = fs /\ attempts' = <<>> /\ toasts' = <<>> /\ Edit

\* One pass of move_to_here's loop; after the last one the clipboard is
\* cleared and the view reloaded.
move_step ==
  /\ pc = "move"
  /\ UNCHANGED <<settings, current_path, selection, pending, op, popup, fs0,
                 batch, budget>>
  /\ LET src == Head(todo)
         base == Basename(src)
         dest == Join(current_path, base)
     IN \E r \in ShutilMove(fs, src, dest) :
          LET t == IF r.ok THEN toasts ELSE Append(toasts, Toast("Move failed", base))
          IN /\ fs' = r.fs
             /\ attempts' = Append(attempts, [src |-> src, dest |-> dest,
                                              fresh |-> ~Has(fs, dest), ok |-> r.ok])
             /\ todo' = NextItems(todo, r.ok)
             /\ IF NextItems(todo, r.ok) = <<>>
                THEN clipboard' = <<>> /\ pc' = "idle" /\ Reload(t)
                ELSE toasts' = t /\ UNCHANGED <<clipboard, pc, data>>

\* _dedupe_name: the first "<base> (i)<ext>", i = 1, 2, ..., that does not
\* exist. The loop is followed for one probe more than there are nodes; the
\* root path stands for a loop still running then.
Candidate(path, i) ==
  LET sp == SplitExt(Basename(path))
  IN Append(Dirname(path), sp.base \o <<" ", "(">> \o Str(i) \o <<")">> \o sp.ext)
\* A probe that takes the candidate without looking.
ProbeBlind(f, path, i) == Candidate(path, i)
RECURSIVE Probe(_, _, _)
Probe(f, path, i) ==
  IF ~PathExists(f, Candidate(path, i)) THEN Candidate(path, i)
  ELSE IF i > Cardinality(DOMAIN f) THEN <<>>
  ELSE Probe(f, path, i + 1)
dedupe_name(f, path) == Probe(f, path, 1)

\* A paste that keeps the plain target.
PasteDestPlain(f, dest) == dest

\* paste_here's choice of target: deduped if it exists
PasteDest(f, dest) == IF PathExists(f, dest) THEN dedupe_name(f, dest) ELSE dest

\* paste_here: the loop over list(self.clipboard) starts. One case is left
\* out: a directory pasted below itself deeper than one level (copytree then
\* follows its own output until the path is too long for the system).
paste_here ==
  /\ Ready
  /\ \A i \in 1..Len(clipboard) :
       ~(IsDir(fs, clipboard[i]) /\ IsPrefix(clipboard[i], current_path)
         /\ clipboard[i] /= current_path)
  /\ op' = "paste_here"
  /\ popup' = NoPopup
  /\ UNCHANGED <<fs, settings, current_path, selection, clipboard, data, pending>>
  /\ IF clipboard = <<>>
     THEN /\ toasts' = <<Toast("Clipboard empty", <<>>)>>
          /\ NoBatch
          /\ UNCHANGED <<pc, todo, budget>>
     ELSE /\ pc' = "paste" /\ todo' = clipboard /\ batch' = clipboard
          /\ fs0' = fs /\ attempts' = <<>> /\ toasts' = <<>> /\ Edit

\* One pass of paste_here's loop; after the last one the view is reloaded.
paste_step ==
  /\ pc = "paste"
  /\ UNCHANGED <<settings, current_path, selection, clipboard, pending, op,
                 popup, fs0, batch, budget>>
  /\ LET src == Head(todo)
         base == Basename(src)
         dest == PasteDest(fs, Join(current_path, base))
         r == IF IsDir(fs, src) THEN CopyTree(fs, src, dest) ELSE Copy2(fs, src, dest)
         t == IF r.ok THEN toasts ELSE Append(toasts, Toast("Copy failed", base))
     IN /\ fs' = r.fs
        /\ attempts' = Append(attempts, [src |-> src, dest |-> dest,
                                         fresh |-> ~Has(fs, dest), ok |-> r.ok])
        /\ todo' = NextItems(todo, r.ok)
        /\ IF NextItems(todo, r.ok) = <<>>
           THEN pc' = "idle" /\ Reload(t)
           ELSE toasts' = t /\ UNCHANGED <<pc, data>>

\* The (file, arcname) pairs zip_selection writes for the selection visited
\* in `order`: a directory's files under names relative to its parent, a
\* file under its bare name.
RECURSIVE ZipLists(_, _)
ZipLists(f, order) ==
  IF order = <<>> THEN {<<>>}
  ELSE LET src == Head(order)
           first ==
             IF IsDir(f, src)
             THEN {[k \in 1..Len(w) |->
                      [file |-> w[k], arcname |-> SubSeq(w[k], Len(src), Len(w[k]))]]
                   : w \in WalkSeqs(f, src)}
             ELSE {<<[file |-> src, arcname |-> <<Basename(src)>>]>>}
       IN {a \o b : a \in first, b \in ZipLists(f, Tail(order))}

\* zf.write for each pair of `list` in turn, into the archive at `out`: the
\* first file that cannot be read raises, and leaving the `with` block
\* closes the archive over the members written so far.
ZipWrite(f, out, list) ==
  LET bad == {k \in 1..Len(list) : ~CanOpen(f, list[k].file)}
      n == IF bad = {} THEN Len(list)
           ELSE (CHOOSE k \in bad : \A j \in bad : k <= j) - 1
      members == {[name |-> list[k].arcname, bytes |-> Bytes(f[list[k].file])]
                  : k \in 1..n}
  IN [fs |-> Put(f, out, ZipNode(1 + Cardinality(members), Now, members)),
      ok |-> bad = {}]

\* open(p, 'wb') can create or truncate p
CanWrite(f, p) ==
  IsDir(f, Dirname(p)) /\ (Has(f, p) => ~f[p].dir /\ f[p].mode \in {"ok", "locked"})

\* zip_selection, with the text typed into the popup
zip_selection(text) ==
  /\ Ready
  /\ op' = "zip_selection"
  /\ Plain
  /\ UNCHANGED <<current_path, selection, clipboard>>
  /\ IF selection = {}
     THEN /\ toasts' = <<Toast("Select files/folders to zip", <<>>)>>
          /\ UNCHANGED <<fs, data, budget>>
     ELSE LET name == Strip(text)
              out_path == Join(current_path,
                               IF EndsWith(name, <<".", "z", "i", "p">>) THEN name
                               ELSE name \o <<".", "z", "i", "p">>)
              f1 == Put(fs, out_path, ZipNode(0, Now, {}))
          IN IF name = <<>>
             THEN toasts' = <<>> /\ UNCHANGED <<fs, data, budget>>
             ELSE IF ~CanWrite(fs, out_path)
             THEN toasts' = <<Toast("error", name)>> /\ Edit /\ UNCHANGED <<fs, data>>
             ELSE \E order \in Perms(selection) : \E list \in ZipLists(f1, order) :
                    LET w == ZipWrite(f1, out_path, list)
                    IN /\ fs' = w.fs
                       /\ Edit
                       /\ IF w.ok THEN Reload(<<>>)
                          ELSE toasts' = <<Toast("error", name)>> /\ data' = data

\* ZipFile.extractall(target_dir) over the members M: each member's missing
\* directories are created, then its file is written over whatever file is
\* there; the first error is raised.
ExtractOne(f, target_dir, m) ==
  LET path == target_dir \o m.name
      d == MakeDirs(f, Dirname(path), TRUE)
  IN IF ~d.ok \/ ~CanWrite(d.fs, path) THEN Fail(d.fs)
     ELSE Done(Put(d.fs, path,
                   [dir |-> FALSE, size |-> m.bytes.size, mtime |-> Now, mode |-> "ok",
                    data |-> m.bytes.data, zip |-> m.bytes.zip, arc |-> m.bytes.arc]))
RECURSIVE ExtractAll(_, _, _)
ExtractAll(f, target_dir, M) ==
  IF M = {} THEN {Done(f)}
  ELSE UNION { LET r == ExtractOne(f, target_dir, m)
               IN IF r.ok THEN ExtractAll(r.fs, target_dir, M \ {m}) ELSE {r}
               : m \in M }

\* unzip_here, with the text typed into the popup
unzip_here(text) ==
  /\ Ready
  /\ op' = "unzip_here"
  /\ Plain
  /\ UNCHANGED <<current_path, selection, clipboard>>
  /\ IF Cardinality(selection) /= 1
     THEN /\ toasts' = <<Toast("Select exactly one .zip file", <<>>)>>
          /\ UNCHANGED <<fs, data, budget>>
     ELSE LET src == CHOOSE x \in selection : TRUE
              target == Strip(text)
              target_dir == Join(current_path, target)
              m == MakeDirs(fs, target_dir, TRUE)
          IN IF ~EndsWith(Lower(Basename(src)), <<".", "z", "i", "p">>)
             THEN /\ toasts' = <<Toast("Not a .zip file", <<>>)>>
                  /\ UNCHANGED <<fs, data, budget>>
             ELSE IF target = <<>>
             THEN toasts' = <<>> /\ UNCHANGED <<fs, data, budget>>
             ELSE IF ~m.ok \/ ~(CanOpen(m.fs, src) /\ m.fs[src].zip)
             THEN /\ fs' = m.fs
                  /\ Edit
                  /\ toasts' = <<Toast("error", target)>>
                  /\ data' = data
             ELSE \E r \in ExtractAll(m.fs, target_dir, m.fs[src].arc) :
                    /\ fs' = r.fs
                    /\ Edit
                    /\ IF r.ok THEN Reload(<<>>)
                       ELSE toasts' = <<Toast("error", target)>> /\ data' = data

\* props: the totals the Properties popup shows
PropsFiles(f, p) == IF IsDir(f, p) THEN WalkFiles(f, p) ELSE {p}

\* A count that leaves out the files whose size cannot be read.
RECURSIVE total_files_sized(_, _)
total_files_sized(f, sel) ==
  IF sel = {} THEN 0
  ELSE LET p == CHOOSE p \in sel : TRUE
       IN Cardinality({q \in PropsFiles(f, p) : CanStat(f, q)})
          + total_files_sized(f, sel \ {p})

RECURSIVE total_files(_, _)
total_files(f, sel) ==
  IF sel = {} THEN 0
  ELSE LET p == CHOOSE p \in sel : TRUE
       IN Cardinality(PropsFiles(f, p)) + total_files(f, sel \ {p})
RECURSIVE total_size(_, _)
total_size(f, sel) ==
  IF sel = {} THEN 0
  ELSE LET p == CHOOSE p \in sel : TRUE
       IN SumSizes(f, {q \in PropsFiles(f, p) : CanStat(f, q)})
          + total_size(f, sel \ {p})

props ==
  /\ Ready
  /\ op' = "props"
  /\ NoBatch
  /\ UNCHANGED <<fs, settings, current_path, selection, clipboard, data,
                 pending, pc, todo, budget>>
  /\ IF selection = {}
     THEN toasts' = <<Toast("Select item(s)", <<>>)>> /\ popup' = NoPopup
     ELSE /\ toasts' = <<>>
          /\ popup' = [shown |-> TRUE, items |-> Cardinality(selection),
                       files |-> total_files(fs, selection),
                       size |-> total_size(fs, selection)]

\* --------------------------------------------------------------- file names
n_A == <<"A">>
n_b_txt == <<"b", ".", "t", "x", "t">>
n_c_txt == <<"c", ".", "t", "x", "t">>
n_C_txt == <<"C", ".", "t", "x", "t">>
n_hidden == <<".", "h">>
n_u == <<"u">>
n_x == <<"x">>

\* on_kv_post has navigated to the base directory of the tree f; n edits
\* are followed.
InitIn(f, n) ==
  /\ fs = f
  /\ current_path = <<>>
  /\ show_hidden = FALSE
  /\ search_query = <<>>
  /\ sort_key = "name"
  /\ sort_desc = FALSE
  /\ selection = {}
  /\ clipboard = <<>>
  /\ data \in Views(f, <<>>, FALSE, <<>>, "name", FALSE, {})
  /\ pending = 0
  /\ pc = "idle"
  /\ todo = <<>>
  /\ op = "on_kv_post"
  /\ toasts = <<>>
  /\ popup = NoPopup
  /\ fs0 = EmptyFs
  /\ batch = <<>>
  /\ attempts = <<>>
  /\ budget = n

SortKeys == {"name", "size", "date"}

\* ------------------------------------------------- browsing a fixed tree
\* The folder A (holding c.txt), the files b.txt and C.txt, the hidden file
\* .h, and the file u that cannot be stat-ed.
HomeView ==
  (<<>> :> DirNode(1, "ok")) @@
  (<<n_A>> :> DirNode(2, "ok")) @@
  (<<n_A, n_c_txt>> :> FileNode(100, 1, "ok", 1)) @@
  (<<n_b_txt>> :> FileNode(10, 2, "ok", 2)) @@
  (<<n_C_txt>> :> FileNode(100, 1, "ok", 3)) @@
  (<<n_hidden>> :> FileNode(5, 1, "ok", 4)) @@
  (<<n_u>> :> FileNode(40, 1, "denied", 5))

InitView == InitIn(HomeView, 1)

NextView ==
  \/ go_up
  \/ \E i \in 1..Len(data) : on_item_open(i)
  \/ \E i \in 1..Len(data) : toggle_select(i)
  \/ select_all
  \/ clear_sel
  \/ toggle_hidden
  \/ \E k \in SortKeys : set_sort(k)
  \/ \E q \in {<<>>, <<"B", " ">>} : do_search(q)
  \/ clock_reload

SpecView == InitView /\ [][NextView]_vars

\* C1: in every view reload produces, for every sort key and direction,
\* every directory row comes before every file row.
DirsFirst ==
  \A i, j \in 1..Len(data) : (data[i].is_dir /\ ~data[j].is_dir) => i < j

\* A state reload's descending sort has produced with both kinds listed.
DirsFirstCase ==
  /\ sort_desc
  /\ \E i, j \in 1..Len(data) : data[i].is_dir /\ ~data[j].is_dir

\* C7: a navigate_to that succeeds (from go_up or from opening a directory)
\* leaves the selection empty, and a reload of the same directory (run by
\* the Clock, toggle_hidden, set_sort or after do_search) leaves the
\* selection as it was.
NavigationClears ==
  (op \in {"go_up", "on_item_open"}
     /\ \A k \in 1..Len(toasts) : toasts[k].kind /= "Path not found")
  => selection = {}
ReloadKeeps ==
  op' \in {"reload", "toggle_hidden", "set_sort", "do_search"}
  => selection' = selection
SelectionLifecycle == []NavigationClears /\ [][ReloadKeeps]_vars

\* A reload through toggle_hidden has filtered a selected path out of the
\* view, and the path is still selected.
SelectionSurvivesFilter ==
  /\ op = "toggle_hidden"
  /\ \E p \in selection : \A i \in 1..Len(data) : data[i].path /= p

\* ------------------------------------------------- the batch operations
\* The folder A holding c.txt, the file b.txt that cannot be unlinked and the
\* file C.txt that cannot be read.
HomeBatch ==
  (<<>> :> DirNode(1, "ok")) @@
  (<<n_A>> :> DirNode(2, "ok")) @@
  (<<n_A, n_c_txt>> :> FileNode(7, 1, "ok", 1)) @@
  (<<n_b_txt>> :> FileNode(10, 2, "locked", 2)) @@
  (<<n_C_txt>> :> FileNode(100, 1, "noread", 3))

\* Edits followed when only the batch operations run.
EditsBatch == 1

InitBatch == InitIn(HomeBatch, EditsBatch)

NextBatch ==
  \/ go_up
  \/ \E i \in 1..Len(data) : on_item_open(i)
  \/ \E i \in 1..Len(data) : toggle_select(i)
  \/ delete_items
  \/ delete_step
  \/ copy_to_clipboard
  \/ move_to_here
  \/ move_step
  \/ paste_here
  \/ paste_step

SpecBatch == InitBatch /\ [][NextBatch]_vars

\* A batch loop has run to its end.
BatchDone == pc = "idle" /\ batch /= <<>>

\* The item p of the batch, tried on its own in the file system the batch
\* started from, can succeed.
AloneOK(p) ==
  LET to == Join(current_path, Basename(p))
  IN IF op = "delete_items"
     THEN \E r \in (IF IsDir(fs0, p) THEN RmTree(fs0, p) ELSE {OsRemove(fs0, p)}) : r.ok
     ELSE IF op = "paste_here"
     THEN IF IsDir(fs0, p) THEN CopyTree(fs0, p, PasteDest(fs0, to)).ok
          ELSE Copy2(fs0, p, PasteDest(fs0, to)).ok
     ELSE \E r \in ShutilMove(fs0, p, to) : r.ok

\* What the item's node held is found at q.
SameContent(p, q) ==
  /\ Has(fs, q)
  /\ fs[q].dir = fs0[p].dir
  /\ ~fs0[p].dir => Bytes(fs[q]) = Bytes(fs0[p])

\* The attempt a has had its effect: the item is gone, is copied to its
\* target, or has moved to its target.
Effected(a) ==
  IF op = "delete_items" THEN Under(fs, a.src) = {}
  ELSE IF op = "paste_here"
  THEN /\ SameContent(a.src, a.dest)
       /\ \A q \in Under(fs0, a.src) :
            Has(fs, a.dest \o SubSeq(q, Len(a.src) + 1, Len(q)))
  ELSE /\ a.src = a.dest \/ ~Has(fs, a.src)
       /\ SameContent(a.src, a.dest)
          \/ SameContent(a.src, Append(a.dest, Basename(a.src)))

\* The failure notices shown for the item p.
Reports(p) ==
  Cardinality({j \in 1..Len(toasts) :
                 /\ toasts[j].kind \in {"Failed", "Copy failed", "Move failed"}
                 /\ toasts[j].item = Basename(p)})

\* C2: when a batch loop of delete_items, paste_here or move_to_here has
\* ended, every item of the batch has been attempted in turn, every item
\* that can succeed on its own has had its effect, and one failure is
\* reported for each item that cannot and none for the others.
BatchIsolation ==
  BatchDone =>
    /\ Len(attempts) = Len(batch)
    /\ \A k \in 1..Len(batch) :
         /\ attempts[k].src = batch[k]
         /\ AloneOK(batch[k]) => Effected(attempts[k])
         /\ Reports(batch[k]) = IF AloneOK(batch[k]) THEN 0 ELSE 1

\* A delete batch whose second item was removed after its first had failed.
DeleteGoesOn ==
  /\ BatchDone
  /\ op = "delete_items"
  /\ Len(batch) >= 2
  /\ ~attempts[1].ok /\ Has(fs, batch[1])
  /\ attempts[2].ok /\ ~Has(fs, batch[2])

\* C10: while move_to_here's loop runs the clipboard holds the whole batch;
\* when the loop has ended, every item attempted, the clipboard is empty
\* whether or not moves failed; every move is aimed at the current
\* directory joined with the item's base name, and creates nothing outside
\* that target.
MoveKeepsClipboard ==
  /\ pc = "move" => clipboard = batch
  /\ (BatchDone /\ op = "move_to_here") =>
       clipboard = <<>> /\ Len(attempts) = Len(batch)
MoveTarget ==
  pc = "move" =>
    LET a == attempts'[Len(attempts')]
    IN /\ a.src = Head(todo)
       /\ a.dest = Append(current_path, Basename(a.src))
       /\ \A q \in DOMAIN fs' \ DOMAIN fs : IsPrefix(a.dest, q)
MoveClearsAtEnd == []MoveKeepsClipboard /\ [][MoveTarget]_vars

\* A move batch of two items has ended, its first move failed, and the
\* clipboard is empty.
MoveEndedAfterFailure ==
  /\ BatchDone
  /\ op = "move_to_here"
  /\ Len(batch) = 2
  /\ ~attempts[1].ok
  /\ clipboard = <<>>

\* ------------------------------------------------------ pasting repeatedly
\* The folder A holding its own b.txt, the file b.txt and the file C.txt
\* that cannot be read.
HomePaste ==
  (<<>> :> DirNode(1, "ok")) @@
  (<<n_A>> :> DirNode(2, "ok")) @@
  (<<n_A, n_b_txt>> :> FileNode(7, 1, "ok", 1)) @@
  (<<n_b_txt>> :> FileNode(10, 2, "ok", 2)) @@
  (<<n_C_txt>> :> FileNode(100, 1, "noread", 3))

\* Pastes followed one after another.
EditsPaste == 2

\* Rows of the base directory have been selected with toggle_select and
\* staged with copy_to_clipboard.
InitPaste ==
  \E S \in SUBSET Children(HomePaste, <<>>) :
    /\ S /= {}
    /\ fs = HomePaste
    /\ current_path = <<>>
    /\ show_hidden = FALSE
    /\ search_query = <<>>
    /\ sort_key = "name"
    /\ sort_desc = FALSE
    /\ selection = S
    /\ clipboard \in Perms(S)
    /\ data \in Views(HomePaste, <<>>, FALSE, <<>>, "name", FALSE, S)
    /\ pending = 0
    /\ pc = "idle"
    /\ todo = <<>>
    /\ op = "copy_to_clipboard"
    /\ toasts = <<Toast("Copied", Str(Cardinality(S)))>>
    /\ popup = NoPopup
    /\ fs0 = EmptyFs
    /\ batch = <<>>
    /\ attempts = <<>>
    /\ budget = EditsPaste

NextPaste ==
  \/ go_up
  \/ \E i \in 1..Len(data) : on_item_open(i)
  \/ paste_here
  \/ paste_step

SpecPaste == InitPaste /\ [][NextPaste]_vars

\* The targets paste_here can compute in the current file system: a
\* directory joined with the base name of a node.
PasteTargets ==
  {Append(d, Basename(p)) : d \in {q \in DOMAIN fs : fs[q].dir},
                            p \in DOMAIN fs \ {<<>>}}

\* C5: for every target p, the name paste_here settles on is p itself when
\* p does not exist; when p exists the probing ends and gives
\* "<stem> (k)<ext>" for the smallest k >= 1 whose path does not exist.
NameResolution ==
  \A p \in PasteTargets :
    LET r == PasteDest(fs, p)
    IN IF ~PathExists(fs, p) THEN r = p
       ELSE /\ r /= <<>>
            /\ ~PathExists(fs, r)
            /\ \E k \in 1..(Cardinality(DOMAIN fs) + 1) :
                 /\ r = Candidate(p, k)
                 /\ \A j \in 1..(k - 1) : PathExists(fs, Candidate(p, j))

\* A paste has put a copy under the second candidate name.
PastedUnderSecondName ==
  /\ op = "paste_here"
  /\ \E k \in 1..Len(attempts) :
       /\ attempts[k].ok
       /\ attempts[k].dest
            = Candidate(Append(current_path, Basename(attempts[k].src)), 2)

\* C6: during and after every paste, each node that existed when the paste
\* started is still there unchanged, and each item copied successfully went
\* to a name that did not exist just before it was copied.
PasteNeverOverwrites ==
  (op = "paste_here" /\ batch /= <<>>) =>
    /\ \A p \in DOMAIN fs0 : Has(fs, p) /\ fs[p] = fs0[p]
    /\ \A k \in 1..Len(attempts) : attempts[k].ok => attempts[k].fresh

\* The clipboard has been pasted a second time into the directory its
\* sources live in, and both items were copied.
PastedTwiceAtHome ==
  /\ BatchDone
  /\ op = "paste_here"
  /\ budget = EditsPaste - 2
  /\ Len(batch) = 2
  /\ \A k \in 1..2 : attempts[k].ok /\ Dirname(batch[k]) = current_path

\* ------------------------------------------------------------ every handler
\* The folder A holding c.txt, and the file b.txt that cannot be read.
Home ==
  (<<>> :> DirNode(1, "ok")) @@
  (<<n_A>> :> DirNode(2, "ok")) @@
  (<<n_A, n_c_txt>> :> FileNode(7, 1, "ok", 1)) @@
  (<<n_b_txt>> :> FileNode(10, 2, "noread", 2))

\* Edits followed when every handler can run.
EditsAll == 1

\* What the user types into a popup or the search box.
Texts == {<<>>, <<"z", " ">>}
Queries == {<<>>, <<"B">>}

Init == InitIn(Home, EditsAll)

Next ==
  \/ go_up
  \/ \E i \in 1..Len(data) : on_item_open(i)
  \/ \E i \in 1..Len(data) : toggle_select(i)
  \/ select_all
  \/ clear_sel
  \/ toggle_hidden
  \/ \E k \in {"name", "size"} : set_sort(k)
  \/ \E q \in Queries : do_search(q)
  \/ clock_reload
  \/ \E t \in Texts : new_folder(t)
  \/ \E t \in Texts : rename_item(t)
  \/ delete_items
  \/ delete_step
  \/ copy_to_clipboard
  \/ move_to_here
  \/ move_step
  \/ paste_here
  \/ paste_step
  \/ \E t \in Texts : zip_selection(t)
  \/ \E t \in Texts : unzip_here(t)
  \/ props

Spec == Init /\ [][Next]_vars

\* C3: a zip_selection that fails leaves the file system as it was: no
\* archive, partial or empty, is left at the output path.
ZipAllOrNothing ==
  (op' = "zip_selection" /\ toasts' /= <<>>) => fs' = fs
ArchiveAllOrNothing == [][ZipAllOrNothing]_vars

\* C8: a step changes the clipboard only if it is copy_to_clipboard with a
\* non-empty selection, which sets it, or the end of move_to_here's loop,
\* which empties it; and copy_to_clipboard leaves the selection as it was.
ClipboardStep ==
  /\ clipboard' /= clipboard =>
       \/ op' = "copy_to_clipboard" /\ selection /= {} /\ clipboard' /= <<>>
       \/ op' = "move_to_here" /\ pc = "move" /\ clipboard' = <<>>
  /\ op' = "copy_to_clipboard" => selection' = selection
ClipboardFrame == [][ClipboardStep]_vars

\* A paste into another directory than the one the staged paths were
\* selected in has ended, the selection has been cleared by the navigation,
\* and the clipboard still holds the staged paths.
ClipboardSurvives ==
  /\ BatchDone
  /\ op = "paste_here"
  /\ clipboard = batch
  /\ selection = {}
  /\ Dirname(clipboard[1]) /= current_path

\* C9: copy_to_clipboard with a non-empty selection makes the clipboard a
\* list of exactly the selected paths, each once; with an empty selection it
\* shows "Select files to copy" and leaves the clipboard as it was.
StagingStep ==
  op' = "copy_to_clipboard" =>
    IF selection = {}
    THEN clipboard' = clipboard /\ toasts' = <<Toast("Select files to copy", <<>>)>>
    ELSE /\ Len(clipboard') = Cardinality(selection)
         /\ {clipboard'[k] : k \in 1..Len(clipboard')} = selection
StagingExact == [][StagingStep]_vars

\* copy_to_clipboard has run with nothing selected while paths were staged,
\* and they are still staged.
EmptyStagingKeeps ==
  /\ op = "copy_to_clipboard"
  /\ selection = {}
  /\ clipboard /= <<>>
  /\ toasts = <<Toast("Select files to copy", <<>>)>>

\* --------------------------------------------------------------- properties
n_y == <<"y">>
n_e == <<"e">>

\* The folder A holding x (100 bytes), y (250 bytes), u (which cannot be
\* stat-ed) and a folder of its own holding e; beside it the files b.txt
\* and C.txt.
HomeProps ==
  (<<>> :> DirNode(1, "ok")) @@
  (<<n_A>> :> DirNode(2, "ok")) @@
  (<<n_A, n_x>> :> FileNode(100, 1, "ok", 1)) @@
  (<<n_A, n_y>> :> FileNode(250, 1, "ok", 2)) @@
  (<<n_A, n_u>> :> FileNode(40, 1, "denied", 3)) @@
  (<<n_A, n_A>> :> DirNode(2, "ok")) @@
  (<<n_A, n_A, n_e>> :> FileNode(5, 1, "ok", 4)) @@
  (<<n_b_txt>> :> FileNode(10, 2, "ok", 5)) @@
  (<<n_C_txt>> :> FileNode(100, 1, "ok", 6))

InitProps == InitIn(HomeProps, 1)

NextProps ==
  \/ go_up
  \/ \E i \in 1..Len(data) : on_item_open(i)
  \/ \E i \in 1..Len(data) : toggle_select(i)
  \/ select_all
  \/ clear_sel
  \/ \E k \in SortKeys : set_sort(k)
  \/ props

SpecProps == InitProps /\ [][NextProps]_vars

\* The files the walk of the selection finds: a selected file, or a file
\* below a selected directory with every directory on the way scannable.
FilesFound ==
  {q \in DOMAIN fs : /\ ~fs[q].dir
                     /\ \E p \in selection :
                          /\ IsPrefix(p, q)
                          /\ \A k \in Len(p)..(Len(q) - 1) :
                               CanScan(fs, SubSeq(q, 1, k))}
FilesSized == {q \in FilesFound : CanStat(fs, q)}

\* C4 as stated: the popup shows the number of selected paths, the number of
\* files whose size could be read, and the sum of those sizes.
PropsCountsSized ==
  popup.shown =>
    /\ popup.items = Cardinality(selection)
    /\ popup.files = Cardinality(FilesSized)
    /\ popup.size = SumSizes(fs, FilesSized)

\* C4, amended: the popup shows the number of selected paths, the number of
\* files found whether or not their size could be read, and the sum of the
\* sizes that could be read.
PropsCountsFound ==
  popup.shown =>
    /\ popup.items = Cardinality(selection)
    /\ popup.files = Cardinality(FilesFound)
    /\ popup.size = SumSizes(fs, FilesSized)

\* Properties of the folder holding the 100 and 250 byte files, the file
\* that cannot be stat-ed and the nested 5 byte file.
PropsOfFolder ==
  /\ popup.shown
  /\ selection = {<<n_A>>}
  /\ popup.files = 4
  /\ popup.size = 355

\* ------------------------------------------------- new folders and renames
\* The empty folder A and the files b.txt and C.txt.
HomeNames ==
  (<<>> :> DirNode(1, "ok")) @@
  (<<n_A>> :> DirNode(2, "ok")) @@
  (<<n_b_txt>> :> FileNode(10, 2, "ok", 2)) @@
  (<<n_C_txt>> :> FileNode(100, 1, "ok", 3))

\* Edits followed when folders are created and items renamed.
EditsNames == 2

\* Names typed into the New Folder and Rename popups: a free name, a name
\* below a folder that does not exist, the name of an existing file, and a
\* name below an existing folder.
NameTexts ==
  {<<"z">>, <<"z", "/", "y">>, n_C_txt, <<"A", "/", "q">>}

InitNames == InitIn(HomeNames, EditsNames)

NextNames ==
  \/ go_up
  \/ \E i \in 1..Len(data) : on_item_open(i)
  \/ \E i \in 1..Len(data) : toggle_select(i)
  \/ \E t \in NameTexts : new_folder(t)
  \/ \E t \in NameTexts : rename_item(t)

SpecNames == InitNames /\ [][NextNames]_vars

\* C11: new_folder changes nothing that exists, creates at most the one
\* directory asked for (never a missing ancestor as well), and changes
\* nothing at all when it reports a failure.
NewFolderStep ==
  op' = "new_folder" =>
    /\ \A p \in DOMAIN fs : Has(fs', p) /\ fs'[p] = fs[p]
    /\ Cardinality(DOMAIN fs' \ DOMAIN fs) <= 1
    /\ toasts' /= <<>> => fs' = fs
NewFolderNotRecursive == [][NewFolderStep]_vars

\* The handler reported that its file-system call failed.
CallFailed == \E k \in 1..Len(toasts') : toasts'[k].kind = "error" /\ toasts'[k].item /= <<>>

\* C16: rename_item changes nothing unless exactly one path is selected;
\* then either nothing changes (the rename failed, as it must when the
\* target exists, or it was to the item's own name), or the old path is
\* gone and the selection is exactly the new path, which lies below the old
\* path's directory, exists, and did not exist before.
RenameStep ==
  op' = "rename_item" =>
    IF Cardinality(selection) /= 1 THEN fs' = fs /\ selection' = selection
    ELSE LET old == CHOOSE x \in selection : TRUE
         IN /\ CallFailed => fs' = fs /\ selection' = selection
            /\ \/ fs' = fs /\ selection' = selection
               \/ /\ ~CallFailed
                  /\ ~Has(fs', old)
                  /\ \E new \in DOMAIN fs' :
                       /\ selection' = {new}
                       /\ IsPrefix(Dirname(old), new)
                       /\ ~Has(fs, new)
RenameOnlyToFreeName == [][RenameStep]_vars

\* C18: every selected path is an immediate child of the current directory.
SelectionLocal == \A p \in selection : IsChildOf(p, current_path)

\* --------------------------------------------------- toggling and filtering
\* C14: for every path p of the view, toggling p changes the membership of p
\* and of nothing else, and toggling it again gives the selection back;
\* toggle_select does this to the path of one row, and neither it nor
\* select_all nor clear_sel changes the file system.
ToggleFlips ==
  \A i \in 1..Len(data) :
    LET p == data[i].path
        t == Toggled(selection, p)
    IN /\ Toggled(t, p) = selection
       /\ (p \in t) = (p \notin selection)
       /\ t \ {p} = selection \ {p}
ToggleStep ==
  /\ op' = "toggle_select" =>
       /\ fs' = fs
       /\ \E i \in 1..Len(data) :
            selection' = (selection \ {data[i].path}) \cup ({data[i].path} \ selection)
  /\ op' \in {"select_all", "clear_sel"} => fs' = fs
ToggleInvolution == []ToggleFlips /\ [][ToggleStep]_vars

\* A toggle has taken the last selected path out of the selection.
ToggledBackToNone ==
  /\ op = "toggle_select"
  /\ selection = {}
  /\ data /= <<>>

\* The paths of the rows on screen, and the children of the current
\* directory that pass the hidden-file rule and contain q in their
\* lower-cased name.
Shown == {data[i].path : i \in 1..Len(data)}
Passing(q) ==
  {p \in Children(fs, current_path) :
     /\ CanStat(fs, p)
     /\ show_hidden \/ Basename(p)[1] /= "."
     /\ Contains(Lower(Basename(p)), q)}

\* C15 as stated: once the scheduled reloads have run, the view holds, each
\* once, exactly the children that pass the hidden-file rule and contain the
\* query, compared without regard to case.
ViewIsFilter ==
  pending = 0 =>
    /\ Shown = Passing(Lower(search_query))
    /\ Len(data) = Cardinality(Shown)

\* C15, amended: the same with the query stripped of the blanks around it.
ViewIsStrippedFilter ==
  pending = 0 =>
    /\ Shown = Passing(Strip(Lower(search_query)))
    /\ Len(data) = Cardinality(Shown)

\* A search for "B " has been reloaded: b.txt is shown, C.txt is not.
SearchShowsMatch ==
  /\ pending = 0
  /\ search_query = <<"B", " ">>
  /\ current_path = <<>>
  /\ Shown = {<<n_b_txt>>}

\* ------------------------------------------------------ archives, both ways
n_N == <<"N">>
n_z_zip == <<"z", ".", "z", "i", "p">>

\* The folder A holding c.txt and the folder N, which cannot be scanned and
\* holds x; beside A the file z.zip, which is no zip archive.
HomeZip ==
  (<<>> :> DirNode(1, "ok")) @@
  (<<n_A>> :> DirNode(2, "ok")) @@
  (<<n_A, n_c_txt>> :> FileNode(7, 1, "ok", 1)) @@
  (<<n_A, n_N>> :> DirNode(2, "noread")) @@
  (<<n_A, n_N, n_x>> :> FileNode(100, 1, "ok", 2)) @@
  (<<n_z_zip>> :> FileNode(10, 2, "ok", 3))

\* Edits followed when archives are written and extracted.
EditsZip == 2

\* Names typed into the Zip popup, and into the Unzip popup.
ZipTexts == {<<"z">>, <<"e">>}
UnzipTexts == {<<"e">>}

InitZip == InitIn(HomeZip, EditsZip)

NextZip ==
  \/ go_up
  \/ \E i \in 1..Len(data) : on_item_open(i)
  \/ \E i \in 1..Len(data) : toggle_select(i)
  \/ \E t \in ZipTexts : zip_selection(t)
  \/ \E t \in UnzipTexts : unzip_here(t)

SpecZip == InitZip /\ [][NextZip]_vars

\* C12: when new_folder, rename_item or unzip_here reports that its call
\* failed, the file system is exactly as it was before the handler ran.
FailureStep ==
  (op' \in {"new_folder", "rename_item", "unzip_here"} /\ CallFailed) => fs' = fs
FailureLeavesNothing == [][FailureStep]_vars

\* The files of the selection, direct or nested, and the name each should
\* have in the archive: its path from the selected item's own name on.
SelectedFiles(p) == {q \in DOMAIN fs : ~fs[q].dir /\ IsPrefix(p, q)}
ArcName(p, q) == SubSeq(q, Len(p), Len(q))
Expected ==
  UNION {{[name |-> ArcName(p, q), bytes |-> Bytes(fs[q])] : q \in SelectedFiles(p)}
         : p \in selection}

\* The handler made its file-system call and reported no failure.
CallDone == budget' < budget /\ ~CallFailed /\ toasts' = <<>>

\* C13: a zip_selection that succeeds writes an archive holding one member
\* for every file of the selection, under its relative name and with its
\* contents, no two under the same name; an unzip_here that succeeds into a
\* directory that was empty or missing leaves there exactly the archive's
\* members, under their names and with their contents.
ZipStep ==
  (op' = "zip_selection" /\ CallDone) =>
    \E out \in DOMAIN fs' :
      /\ fs'[out].zip
      /\ fs'[out].arc = Expected
      /\ Cardinality({m.name : m \in Expected})
           = Cardinality(UNION {SelectedFiles(p) : p \in selection})
UnzipStep ==
  (op' = "unzip_here" /\ CallDone) =>
    LET src == CHOOSE x \in selection : TRUE
    IN \E d \in Children(fs', current_path) :
         /\ fs'[d].dir
         /\ \A m \in fs[src].arc :
              Has(fs', d \o m.name) /\ Bytes(fs'[d \o m.name]) = m.bytes
         /\ Under(fs, d) \subseteq {d} =>
              {q \in Under(fs', d) : ~fs'[q].dir} = {d \o m.name : m \in fs[src].arc}
RoundTrip == [][ZipStep /\ UnzipStep]_vars

\* C19: zip_selection leaves every node that existed before it as it was.
ZipKeepsStep ==
  op' = "zip_selection" => \A p \in DOMAIN fs : Has(fs', p) /\ fs'[p] = fs[p]
ZipKeepsData == [][ZipKeepsStep]_vars

\* ------------------------------------------------ a listing that fails
n_D == <<"D">>

\* The folder A holding c.txt, the folder D that cannot be scanned, and the
\* file b.txt.
HomeStale ==
  (<<>> :> DirNode(1, "ok")) @@
  (<<n_A>> :> DirNode(2, "ok")) @@
  (<<n_A, n_c_txt>> :> FileNode(7, 1, "ok", 1)) @@
  (<<n_D>> :> DirNode(2, "noread")) @@
  (<<n_b_txt>> :> FileNode(10, 2, "ok", 2))

InitStale == InitIn(HomeStale, 1)

NextStale ==
  \/ go_up
  \/ \E i \in 1..Len(data) : on_item_open(i)
  \/ \E i \in 1..Len(data) : toggle_select(i)
  \/ select_all
  \/ clear_sel

SpecStale == InitStale /\ [][NextStale]_vars

\* C17: when no handler is running, every row on screen is a child of the
\* current directory and its selected flag says whether its path is
\* selected.
ViewConsistent ==
  pc = "idle" =>
    \A i \in 1..Len(data) :
      /\ IsChildOf(data[i].path, current_path)
      /\ data[i].selected = (data[i].path \in selection)
====
